---- MODULE Spec2Model ----
\* Stage-2 skeleton generator of saccade (core/src/stage2.rs): the parallel
\* for_each over the input list, the three atomic counters, the mutex-guarded
\* result vector, the sort by path and the single write of the XML artifact.
\* Strings are sequences of byte codes; a path is its raw string.
EXTENDS Integers, Sequences, FiniteSets, TLC

\* ---------------------------------------------------------------- bounds
MaxFiles == 3
MaxWorkers == 2

\* ------------------------------------------------------ program constants
MAX_FILE_SIZE_FOR_PARSING == 5 * 1024 * 1024
PROGRESS_REPORT_INTERVAL == 100

None == [some |-> FALSE]
Some(v) == [some |-> TRUE, val |-> v]

\* ------------------------------------------------------------ byte strings
RECURSIVE CmpBytes(_, _)
\* Ordering of two byte strings (OsStr / str comparison): -1, 0, 1.
CmpBytes(a, b) ==
    IF a = <<>> /\ b = <<>> THEN 0
    ELSE IF a = <<>> THEN -1
    ELSE IF b = <<>> THEN 1
    ELSE IF Head(a) < Head(b) THEN -1
    ELSE IF Head(a) > Head(b) THEN 1
    ELSE CmpBytes(Tail(a), Tail(b))

RECURSIVE Replace(_, _, _)
\* str::replace(char, &str): every occurrence of byte c becomes the string r.
Replace(s, c, r) ==
    IF s = <<>> THEN <<>>
    ELSE (IF Head(s) = c THEN r ELSE <<Head(s)>>) \o Replace(Tail(s), c, r)

\* "&amp;" "&lt;" "&gt;" "&quot;" "&apos;"
AMP == <<38, 97, 109, 112, 59>>
LT == <<38, 108, 116, 59>>
GT == <<38, 103, 116, 59>>
QUOT == <<38, 113, 117, 111, 116, 59>>
APOS == <<38, 97, 112, 111, 115, 59>>

\* Mutant: the ampersand is replaced last, after the entities were written.
escape_xml_content_AmpLast(s) == Replace(Replace(Replace(s, 60, LT), 62, GT), 38, AMP)

escape_xml_content(s) == Replace(Replace(Replace(s, 38, AMP), 60, LT), 62, GT)

\* Mutant: the path label is escaped like content, its quotes left alone.
escape_xml_attr_NoQuote(s) == escape_xml_content(s)

escape_xml_attr(s) ==
    Replace(Replace(Replace(Replace(Replace(s, 38, AMP), 60, LT), 62, GT), 34, QUOT), 39, APOS)

\* ------------------------------------------------------------------ paths
RECURSIVE SplitOn(_, _, _)
\* The pieces of s between occurrences of byte c, cur being the piece in progress.
SplitOn(s, c, cur) ==
    IF s = <<>> THEN <<cur>>
    ELSE IF Head(s) = c THEN <<cur>> \o SplitOn(Tail(s), c, <<>>)
    ELSE SplitOn(Tail(s), c, Append(cur, Head(s)))

\* Path::components of a relative path: the pieces between '/' with empty
\* pieces (repeated separators) dropped.
Components(p) == SelectSeq(SplitOn(p, 47, <<>>), LAMBDA c : c # <<>>)

RECURSIVE CmpComponents(_, _)
CmpComponents(a, b) ==
    IF a = <<>> /\ b = <<>> THEN 0
    ELSE IF a = <<>> THEN -1
    ELSE IF b = <<>> THEN 1
    ELSE IF CmpBytes(Head(a), Head(b)) # 0 THEN CmpBytes(Head(a), Head(b))
    ELSE CmpComponents(Tail(a), Tail(b))

\* PathBuf's Ord, used by a.0.cmp(&b.0): component by component.
PathCmp(p, q) == CmpComponents(Components(p), Components(q))

\* Path::extension: the part of the file name after its last '.', if the part
\* before that '.' is not empty.
LastDot(name) ==
    LET dots == {i \in 1..Len(name) : name[i] = 46}
    IN  IF dots = {} THEN 0 ELSE CHOOSE i \in dots : \A j \in dots : j <= i

Extension(p) ==
    LET comps == Components(p)
    IN  IF comps = <<>> THEN None
        ELSE LET name == comps[Len(comps)]
                 d == LastDot(name)
             IN  IF name = <<46, 46>> \/ d <= 1 THEN None
                 ELSE Some(SubSeq(name, d + 1, Len(name)))

\* Path::display().to_string(): the raw path string.
Display(p) == p

\* ------------------------------------------------------- grammar registry
EXT_JS == <<106, 115>>
EXT_JSX == <<106, 115, 120>>
EXT_MJS == <<109, 106, 115>>
EXT_CJS == <<99, 106, 115>>
EXT_TS == <<116, 115>>
EXT_TSX == <<116, 115, 120>>
EXT_RS == <<114, 115>>
EXT_PY == <<112, 121>>

\* Mutant: tsx files get the plain TypeScript grammar.
LangOf_TsxAsTs(ext) ==
    IF ext \in {EXT_JS, EXT_JSX, EXT_MJS, EXT_CJS}
        THEN Some([grammar |-> "javascript", query |-> "JAVASCRIPT_QUERY"])
    ELSE IF ext \in {EXT_TS, EXT_TSX}
        THEN Some([grammar |-> "typescript", query |-> "TYPESCRIPT_QUERY"])
    ELSE IF ext = EXT_RS THEN Some([grammar |-> "rust", query |-> "RUST_QUERY"])
    ELSE IF ext = EXT_PY THEN Some([grammar |-> "python", query |-> "PYTHON_QUERY"])
    ELSE None

\* The match on file_extension of skeletonize_file: grammar and query, or None.
LangOf(ext) ==
    IF ext \in {EXT_JS, EXT_JSX, EXT_MJS, EXT_CJS}
        THEN Some([grammar |-> "javascript", query |-> "JAVASCRIPT_QUERY"])
    ELSE IF ext = EXT_TS THEN Some([grammar |-> "typescript", query |-> "TYPESCRIPT_QUERY"])
    ELSE IF ext = EXT_TSX THEN Some([grammar |-> "tsx", query |-> "TYPESCRIPT_QUERY"])
    ELSE IF ext = EXT_RS THEN Some([grammar |-> "rust", query |-> "RUST_QUERY"])
    ELSE IF ext = EXT_PY THEN Some([grammar |-> "python", query |-> "PYTHON_QUERY"])
    ELSE None

\* "---⋯" : the line CHUNK_SEPARATOR ("\n---⋯\n") leaves between two chunks.
CHUNK_SEPARATOR == <<45, 45, 45, 226, 139, 175>>

RECURSIVE JoinChunks(_)
\* results.join(CHUNK_SEPARATOR), as the lines of the joined string.
JoinChunks(chunks) ==
    IF Len(chunks) = 1 THEN <<chunks[1]>>
    ELSE <<chunks[1], CHUNK_SEPARATOR>> \o JoinChunks(Tail(chunks))

\* Mutant: an empty list of chunks is joined and returned.
skeletonize_file_EmptyOk(content, file_extension) ==
    IF ~LangOf(file_extension).some THEN None
    ELSE IF content.engine # "ok" THEN None
    ELSE IF content.chunks = <<>> THEN Some(<<>>)
    ELSE Some(JoinChunks(content.chunks))

\* skeletonize_file: None for an unknown extension, a grammar that does not
\* load, a parse that gives no tree, a query that does not compile, or no
\* non-empty chunk; else the chunks joined.  The content carries what the
\* tree-sitter engine makes of it.
skeletonize_file(content, file_extension) ==
    IF ~LangOf(file_extension).some THEN None
    ELSE IF content.engine # "ok" THEN None
    ELSE IF content.chunks = <<>> THEN None
    ELSE Some(JoinChunks(content.chunks))

\* ------------------------------------------------------------ file system
\* The files the input list is drawn from.  meta is fs::metadata's answer
\* (Some(len) or None for Err), readable is whether fs::read_to_string
\* succeeds, content is what the tree-sitter engine makes of the text.
P_a_x_rs == <<97, 47, 120, 46, 114, 115>>             \* "a/x.rs"
P_ab_x_rs == <<97, 45, 98, 47, 120, 46, 114, 115>>    \* "a-b/x.rs"
P_big_rs == <<98, 105, 103, 46, 114, 115>>            \* "big.rs"
P_n_txt == <<110, 46, 116, 120, 116>>                 \* "n.txt"
P_Makefile == <<77, 97, 107, 101, 102, 105, 108, 101>> \* "Makefile"
P_gone_py == <<103, 111, 110, 101, 46, 112, 121>>     \* "gone.py"
P_e_js == <<101, 46, 106, 115>>                       \* "e.js"

Paths == {P_a_x_rs, P_ab_x_rs, P_big_rs, P_n_txt, P_Makefile, P_gone_py, P_e_js}

Text(engine, chunks) == [engine |-> engine, chunks |-> chunks]

FS ==
    [p \in Paths |->
        CASE p = P_a_x_rs ->
                [meta |-> Some(MAX_FILE_SIZE_FOR_PARSING), readable |-> TRUE,
                 \* "fn a<T>()" and "//&"
                 content |-> Text("ok", << <<102, 110, 32, 97, 60, 84, 62, 40, 41>>,
                                           <<47, 47, 38>> >>)]
          [] p = P_ab_x_rs ->
                [meta |-> Some(10), readable |-> TRUE,
                 \* "fn b()"
                 content |-> Text("ok", << <<102, 110, 32, 98, 40, 41>> >>)]
          [] p = P_big_rs ->
                [meta |-> Some(MAX_FILE_SIZE_FOR_PARSING + 1), readable |-> TRUE,
                 \* "fn x()"
                 content |-> Text("ok", << <<102, 110, 32, 120, 40, 41>> >>)]
          [] p = P_n_txt ->
                [meta |-> Some(10), readable |-> TRUE, content |-> Text("ok", <<>>)]
          [] p = P_Makefile ->
                [meta |-> Some(10), readable |-> TRUE, content |-> Text("ok", <<>>)]
          [] p = P_gone_py ->
                [meta |-> None, readable |-> FALSE, content |-> Text("ok", <<>>)]
          [] p = P_e_js ->
                \* parses, and the query captures nothing
                [meta |-> Some(0), readable |-> TRUE, content |-> Text("ok", <<>>)]]

RECURSIVE SeqsUpTo(_, _)
\* The sequences over S of length at most n.
SeqsUpTo(S, n) ==
    IF n = 0 THEN {<<>>}
    ELSE LET shorter == SeqsUpTo(S, n - 1)
         IN  shorter \cup {Append(s, x) : s \in shorter, x \in S}

\* The input lists: what the enumerator hands over, each path once, in any order.
InputLists ==
    {s \in SeqsUpTo(Paths, MaxFiles) : \A i, j \in 1..Len(s) : i # j => s[i] # s[j]}

\* ------------------------------------------------------------------ state
VARIABLES
    files,                \* files_to_process
    verbose,              \* self.verbose
    pool,                 \* size of the rayon worker pool
    pc,                   \* where generate is: start, par, write, done
    task,                 \* per entry of files: the closure's position and locals
    processed_count,      \* AtomicUsize
    skipped_large,        \* AtomicUsize
    skipped_unsupported,  \* AtomicUsize
    results,              \* the Vec inside the Mutex
    guard,                \* index of the task holding the MutexGuard, 0 if free
    poisoned,             \* the Mutex's poison flag
    final_count,          \* local of generate, read after the for_each
    disk,                 \* the file at output_path: None or Some(lines)
    ret,                  \* None until generate ends
    stderr,               \* the lines eprintln! wrote
    dir_created,          \* whether create_dir_all(parent) succeeded
    pack,                 \* where SaccadePack::generate is: stage2, manifest, failed
    fn_in,                \* the arguments of the last call of a pure function
    fn_out                \* and what it returned

vars == <<files, verbose, pool, pc, task, processed_count, skipped_large,
          skipped_unsupported, results, guard, poisoned, final_count, disk, ret, stderr,
          dir_created, pack, fn_in, fn_out>>

Idx == 1..Len(files)

Task0 == [st |-> "pending", read |-> FALSE, count |-> 0, outcome |-> "none"]

Init ==
    /\ files \in InputLists
    /\ verbose \in BOOLEAN
    /\ pool \in 1..MaxWorkers
    /\ pc = "start"
    /\ task = [i \in 1..Len(files) |-> Task0]
    /\ processed_count = 0
    /\ skipped_large = 0
    /\ skipped_unsupported = 0
    /\ results = <<>>
    /\ guard = 0
    /\ poisoned = FALSE
    /\ final_count = 0
    /\ disk = None
    /\ ret = None
    /\ stderr = <<>>
    /\ dir_created = FALSE
    /\ pack = "stage2"
    /\ fn_in = [op |-> "none"]
    /\ fn_out = None

\* ---------------------------------------------------------------- helpers
Active == {i \in Idx : task[i].st \notin {"pending", "done", "panicked"}}

Finish(i, outcome) == [task EXCEPT ![i].st = "done", ![i].outcome = outcome]

Line(kind, n) == [line |-> kind, n |-> n]

OkMsg(text, n) == [kind |-> "Ok", msg |-> text, n |-> n]

\* ------------------------------------------------------- generate, part 1
\* Lines 43-55: create_dir_all(parent).ok() discards its result (here the
\* directory exists or is created); an empty list returns at once, before
\* anything is written.
Start ==
    /\ pc = "start"
    /\ dir_created' = TRUE
    /\ IF Len(files) = 0
          THEN /\ ret' = Some(OkMsg("No files to process for Stage 2.", 0))
               /\ pc' = "done"
               /\ UNCHANGED stderr
          ELSE /\ pc' = "par"
               /\ stderr' = IF verbose THEN Append(stderr, Line("Processing", Len(files)))
                                       ELSE stderr
               /\ UNCHANGED ret
    /\ UNCHANGED <<pack, fn_in, fn_out, files, verbose, pool, task, processed_count,
                   skipped_large, skipped_unsupported, results, guard, poisoned,
                   final_count, disk>>

\* --------------------------------------------- the closure, one file each
\* Mutant: the size gate is missing.
CheckSize_NoGate(i) ==
    /\ pc = "par"
    /\ task[i].st = "pending"
    /\ Cardinality(Active) < pool
    /\ IF ~Extension(files[i]).some
          THEN /\ skipped_unsupported' = skipped_unsupported + 1
               /\ task' = Finish(i, "unsupported")
          ELSE /\ task' = [task EXCEPT ![i].st = "read"]
               /\ UNCHANGED skipped_unsupported
    /\ UNCHANGED <<dir_created, pack, fn_in, fn_out, files, verbose, pool, pc, processed_count, skipped_large,
                   results, guard, poisoned, final_count, disk, ret, stderr>>

\* Lines 67-81: a free worker takes entry i; the size check, then the
\* extension.  A file over the ceiling, or a path with no extension, is
\* counted and the closure returns before any read.
CheckSize(i) ==
    /\ pc = "par"
    /\ task[i].st = "pending"
    /\ Cardinality(Active) < pool
    /\ LET metadata == FS[files[i]].meta
       IN  IF metadata.some /\ metadata.val > MAX_FILE_SIZE_FOR_PARSING
              THEN /\ skipped_large' = skipped_large + 1
                   /\ task' = Finish(i, "large")
                   /\ UNCHANGED skipped_unsupported
              ELSE IF ~Extension(files[i]).some
              THEN /\ skipped_unsupported' = skipped_unsupported + 1
                   /\ task' = Finish(i, "unsupported")
                   /\ UNCHANGED skipped_large
              ELSE /\ task' = [task EXCEPT ![i].st = "read"]
                   /\ UNCHANGED <<skipped_large, skipped_unsupported>>
    /\ UNCHANGED <<dir_created, pack, fn_in, fn_out, files, verbose, pool, pc, processed_count,
                   results, guard, poisoned, final_count, disk, ret, stderr>>

\* Mutant: a read error ends the whole batch with an error.
ReadFile_Abort(i) ==
    /\ pc = "par"
    /\ task[i].st = "read"
    /\ IF FS[files[i]].readable
          THEN /\ task' = [task EXCEPT ![i].st = "parse", ![i].read = TRUE]
               /\ UNCHANGED <<pc, ret>>
          ELSE /\ task' = [task EXCEPT ![i].st = "done", ![i].read = TRUE]
               /\ ret' = Some([kind |-> "Err", msg |-> "Io", n |-> 0])
               /\ pc' = "done"
    /\ UNCHANGED <<dir_created, pack, fn_in, fn_out, files, verbose, pool, processed_count, skipped_large, skipped_unsupported,
                   results, guard, poisoned, final_count, disk, stderr>>

\* Lines 84, 102-104: fs::read_to_string.
ReadFile(i) ==
    /\ pc = "par"
    /\ task[i].st = "read"
    /\ IF FS[files[i]].readable
          THEN /\ task' = [task EXCEPT ![i].st = "parse", ![i].read = TRUE]
               /\ UNCHANGED skipped_unsupported
          ELSE /\ skipped_unsupported' = skipped_unsupported + 1
               /\ task' = [Finish(i, "unsupported") EXCEPT ![i].read = TRUE]
    /\ UNCHANGED <<dir_created, pack, fn_in, fn_out, files, verbose, pool, pc, processed_count, skipped_large,
                   results, guard, poisoned, final_count, disk, ret, stderr>>

\* Mutant: the counter is bumped by a separate load and store, the load seeing
\* only the increments of the workers that have already pushed.
Skeletonize_LoadStore(i) ==
    /\ pc = "par"
    /\ task[i].st = "parse"
    /\ IF skeletonize_file(FS[files[i]].content, Extension(files[i]).val).some
          THEN /\ processed_count' = Len(results) + 1
               /\ task' = [task EXCEPT ![i].st = "lock", ![i].count = Len(results) + 1]
               /\ UNCHANGED skipped_unsupported
          ELSE /\ skipped_unsupported' = skipped_unsupported + 1
               /\ task' = Finish(i, "unsupported")
               /\ UNCHANGED processed_count
    /\ UNCHANGED <<dir_created, pack, fn_in, fn_out, files, verbose, pool, pc, skipped_large,
                   results, guard, poisoned, final_count, disk, ret, stderr>>

\* Lines 86-87, 98-100: skeletonize_file, then the fetch_add on processed_count.
Skeletonize(i) ==
    /\ pc = "par"
    /\ task[i].st = "parse"
    /\ IF skeletonize_file(FS[files[i]].content, Extension(files[i]).val).some
          THEN /\ processed_count' = processed_count + 1
               /\ task' = [task EXCEPT ![i].st = "lock", ![i].count = processed_count + 1]
               /\ UNCHANGED skipped_unsupported
          ELSE /\ skipped_unsupported' = skipped_unsupported + 1
               /\ task' = Finish(i, "unsupported")
               /\ UNCHANGED processed_count
    /\ UNCHANGED <<dir_created, pack, fn_in, fn_out, files, verbose, pool, pc, skipped_large,
                   results, guard, poisoned, final_count, disk, ret, stderr>>

\* Mutant: the lock is granted while another worker holds it.
Lock_NoExclusion(i) ==
    /\ pc = "par"
    /\ task[i].st = "lock"
    /\ ~poisoned
    /\ guard' = i
    /\ task' = [task EXCEPT ![i].st = "push"]
    /\ UNCHANGED <<dir_created, pack, fn_in, fn_out, files, verbose, pool, pc, processed_count, skipped_large,
                   skipped_unsupported, results, poisoned, final_count, disk, ret, stderr>>

\* Line 90: results.lock().unwrap() on a mutex that is free and not poisoned.
Lock(i) ==
    /\ pc = "par"
    /\ task[i].st = "lock"
    /\ guard = 0
    /\ ~poisoned
    /\ guard' = i
    /\ task' = [task EXCEPT ![i].st = "push"]
    /\ UNCHANGED <<dir_created, pack, fn_in, fn_out, files, verbose, pool, pc, processed_count, skipped_large,
                   skipped_unsupported, results, poisoned, final_count, disk, ret, stderr>>

\* Mutant: the push replaces the vector instead of appending to it.
Push_Overwrite(i) ==
    /\ pc = "par"
    /\ task[i].st = "push"
    /\ guard = i
    /\ results' =
            <<<<files[i], skeletonize_file(FS[files[i]].content, Extension(files[i]).val).val>>>>
    /\ task' = [task EXCEPT ![i].st = "unlock"]
    /\ UNCHANGED <<dir_created, pack, fn_in, fn_out, files, verbose, pool, pc, processed_count, skipped_large,
                   skipped_unsupported, guard, poisoned, final_count, disk, ret, stderr>>

\* Line 91: results_guard.push((file_path.clone(), skeleton)).
Push(i) ==
    /\ pc = "par"
    /\ task[i].st = "push"
    /\ guard = i
    /\ results' = Append(results,
            <<files[i], skeletonize_file(FS[files[i]].content, Extension(files[i]).val).val>>)
    /\ task' = [task EXCEPT ![i].st = "unlock"]
    /\ UNCHANGED <<dir_created, pack, fn_in, fn_out, files, verbose, pool, pc, processed_count, skipped_large,
                   skipped_unsupported, guard, poisoned, final_count, disk, ret, stderr>>

\* Mutant: the closure goes on without releasing the guard.
Unlock_NoRelease(i) ==
    /\ pc = "par"
    /\ task[i].st = "unlock"
    /\ guard = i
    /\ task' = [task EXCEPT ![i].st = "report"]
    /\ UNCHANGED <<dir_created, pack, fn_in, fn_out, files, verbose, pool, pc, processed_count, skipped_large,
                   skipped_unsupported, results, guard, poisoned, final_count, disk, ret, stderr>>

\* Line 92: drop(results_guard).
Unlock(i) ==
    /\ pc = "par"
    /\ task[i].st = "unlock"
    /\ guard = i
    /\ guard' = 0
    /\ task' = [task EXCEPT ![i].st = "report"]
    /\ UNCHANGED <<dir_created, pack, fn_in, fn_out, files, verbose, pool, pc, processed_count, skipped_large,
                   skipped_unsupported, results, poisoned, final_count, disk, ret, stderr>>

\* Mutant: with verbose on, reporting also bumps the processed counter.
Report_Counting(i) ==
    /\ pc = "par"
    /\ task[i].st = "report"
    /\ stderr' = IF verbose /\ task[i].count % PROGRESS_REPORT_INTERVAL = 0
                    THEN Append(stderr, Line("Processed", task[i].count))
                    ELSE stderr
    /\ processed_count' = IF verbose THEN processed_count + 1 ELSE processed_count
    /\ task' = Finish(i, "processed")
    /\ UNCHANGED <<dir_created, pack, fn_in, fn_out, files, verbose, pool, pc, skipped_large,
                   skipped_unsupported, results, guard, poisoned, final_count, disk, ret>>

\* Lines 94-97: the progress line, then the closure returns.
Report(i) ==
    /\ pc = "par"
    /\ task[i].st = "report"
    /\ stderr' = IF verbose /\ task[i].count % PROGRESS_REPORT_INTERVAL = 0
                    THEN Append(stderr, Line("Processed", task[i].count))
                    ELSE stderr
    /\ task' = Finish(i, "processed")
    /\ UNCHANGED <<dir_created, pack, fn_in, fn_out, files, verbose, pool, pc, processed_count, skipped_large,
                   skipped_unsupported, results, guard, poisoned, final_count, disk, ret>>

\* ------------------------------------------------------- generate, part 2
\* Mutant: the counters are loaded as soon as one closure has returned.
Collect_Early ==
    /\ pc = "par"
    /\ \E i \in Idx : task[i].st = "done"
    /\ final_count' = processed_count
    /\ UNCHANGED stderr
    /\ IF processed_count = 0
          THEN /\ ret' = Some(OkMsg("No supported files found for Stage 2 skeletonization.", 0))
               /\ pc' = "done"
          ELSE /\ pc' = "write"
               /\ UNCHANGED ret
    /\ UNCHANGED <<dir_created, pack, fn_in, fn_out, files, verbose, pool, task,
                   processed_count, skipped_large, skipped_unsupported, results, guard,
                   poisoned, disk>>

\* Lines 108-125: the for_each has returned; the counters are loaded.
Collect ==
    /\ pc = "par"
    /\ \A i \in Idx : task[i].st = "done"
    /\ final_count' = processed_count
    /\ stderr' = IF verbose
                    THEN stderr \o <<Line("Successfully parsed", processed_count)>>
                         \o (IF skipped_large > 0
                                THEN <<Line("Skipped >5MB", skipped_large)>> ELSE <<>>)
                         \o (IF skipped_unsupported > 0
                                THEN <<Line("Skipped unsupported", skipped_unsupported)>>
                                ELSE <<>>)
                    ELSE stderr
    /\ IF processed_count = 0
          THEN /\ ret' = Some(OkMsg("No supported files found for Stage 2 skeletonization.", 0))
               /\ pc' = "done"
          ELSE /\ pc' = "write"
               /\ UNCHANGED ret
    /\ UNCHANGED <<dir_created, pack, fn_in, fn_out, files, verbose, pool, task, processed_count, skipped_large,
                   skipped_unsupported, results, guard, poisoned, disk>>

\* Mutant: the new element always goes to the front.
InsertByPath_Front(s, e) == <<e>> \o s

RECURSIVE InsertByPath(_, _)
\* e put into the sorted sequence s after every element not greater than it.
InsertByPath(s, e) ==
    IF s = <<>> THEN <<e>>
    ELSE IF PathCmp(e[1], Head(s)[1]) < 0 THEN <<e>> \o s
    ELSE <<Head(s)>> \o InsertByPath(Tail(s), e)

\* Mutant: the results are serialized in push order.
SortByPath_PushOrder(s) == s

RECURSIVE SortByPath(_)
\* Line 130: sorted_results.sort_by(|a, b| a.0.cmp(&b.0)), a stable sort.
SortByPath(s) ==
    IF s = <<>> THEN <<>>
    ELSE InsertByPath(SortByPath(SubSeq(s, 1, Len(s) - 1)), s[Len(s)])

RECURSIVE Blocks(_)
\* Lines 136-149: one <file> block per result, its path and lines escaped.
Blocks(sorted) ==
    IF sorted = <<>> THEN <<>>
    ELSE <<[t |-> "file", text |-> escape_xml_attr(Display(Head(sorted)[1]))]>>
         \o [k \in 1..Len(Head(sorted)[2]) |->
                [t |-> "line", text |-> escape_xml_content(Head(sorted)[2][k])]]
         \o <<[t |-> "/file", text |-> <<>>]>>
         \o Blocks(Tail(sorted))

\* Lines 132-151: final_output.
Serialize(rs) ==
    <<[t |-> "?xml", text |-> <<>>], [t |-> "files", text |-> <<>>]>>
    \o Blocks(SortByPath(rs))
    \o <<[t |-> "/files", text |-> <<>>]>>

\* Lines 127-161: into_inner, sort, serialize, fs::write, the summary.  The
\* write cannot succeed in a directory that could not be created.
WriteArtifact ==
    /\ pc = "write"
    /\ ~poisoned
    /\ \E written \in {w \in BOOLEAN : w => dir_created} :
          IF written
             THEN /\ disk' = Some(Serialize(results))
                  /\ ret' = Some(OkMsg("Stage-2: Wrote compressed skeleton", final_count))
             ELSE /\ ret' = Some([kind |-> "Err", msg |-> "Io", n |-> 0])
                  /\ UNCHANGED disk
    /\ pc' = "done"
    /\ UNCHANGED <<dir_created, pack, fn_in, fn_out, files, verbose, pool, task, processed_count, skipped_large,
                   skipped_unsupported, results, guard, poisoned, final_count, stderr>>

\* SaccadePack::generate, lib.rs lines 152-160: the match on what Stage 2
\* returned.  Ok prints the message, Err prints a warning; both go on to the
\* manifest.
Stage2Result ==
    /\ pc = "done"
    /\ pack = "stage2"
    /\ pack' = "manifest"
    /\ stderr' = Append(stderr, IF ret.val.kind = "Ok" THEN Line(ret.val.msg, ret.val.n)
                                                       ELSE Line("WARN: repomix failed", 0))
    /\ UNCHANGED <<dir_created, fn_in, fn_out, files, verbose, pool, pc, task, processed_count,
                   skipped_large, skipped_unsupported, results, guard, poisoned,
                   final_count, disk, ret>>

Next ==
    \/ Start
    \/ \E i \in Idx : CheckSize(i)
    \/ \E i \in Idx : ReadFile(i)
    \/ \E i \in Idx : Skeletonize(i)
    \/ \E i \in Idx : Lock(i)
    \/ \E i \in Idx : Push(i)
    \/ \E i \in Idx : Unlock(i)
    \/ \E i \in Idx : Report(i)
    \/ Collect
    \/ WriteArtifact
    \/ Stage2Result

Spec == Init /\ [][Next]_vars

MaxLiveFiles == 2

\* One path for each way a closure ends: skeletonized (two of them, to
\* contend for the lock), over the size ceiling, unsupported.
LivePaths == {P_a_x_rs, P_ab_x_rs, P_big_rs, P_n_txt}

InitLive ==
    /\ Init
    /\ Len(files) <= MaxLiveFiles
    /\ \A k \in 1..Len(files) : files[k] \in LivePaths

\* The run under a scheduler that lets a thread that can take a step take one.
SpecLive == InitLive /\ [][Next]_vars /\ WF_vars(Next)

\* ------------------------------------------------------------- faults
\* An unforeseen panic inside skeletonize_file (a third-party grammar).
PanicInParse(i) ==
    /\ pc = "par"
    /\ task[i].st = "parse"
    /\ task' = [task EXCEPT ![i].st = "panicked"]
    /\ UNCHANGED <<dir_created, pack, fn_in, fn_out, files, verbose, pool, pc, processed_count, skipped_large,
                   skipped_unsupported, results, guard, poisoned, final_count, disk, ret, stderr>>

\* A panic while the guard is held (line 91): the unwinding guard poisons the
\* mutex and releases it.
PanicInPush(i) ==
    /\ pc = "par"
    /\ task[i].st = "push"
    /\ guard = i
    /\ poisoned' = TRUE
    /\ guard' = 0
    /\ task' = [task EXCEPT ![i].st = "panicked"]
    /\ UNCHANGED <<dir_created, pack, fn_in, fn_out, files, verbose, pool, pc, processed_count, skipped_large,
                   skipped_unsupported, results, final_count, disk, ret, stderr>>

\* Line 90 on a poisoned mutex: lock() gives Err and unwrap() panics.
LockPoisoned(i) ==
    /\ pc = "par"
    /\ task[i].st = "lock"
    /\ guard = 0
    /\ poisoned
    /\ task' = [task EXCEPT ![i].st = "panicked"]
    /\ UNCHANGED <<dir_created, pack, fn_in, fn_out, files, verbose, pool, pc, processed_count, skipped_large,
                   skipped_unsupported, results, guard, poisoned, final_count, disk, ret, stderr>>

\* Lines 64-106 have no catch_unwind: once the running closures have ended,
\* for_each resumes the panic in generate's caller.  generate does not return;
\* its locals (the counters, the results) are dropped.  Entries not yet
\* started may or may not have run.
Unwind ==
    /\ pc = "par"
    /\ \E i \in Idx : task[i].st = "panicked"
    /\ Active = {}
    /\ pc' = "unwound"
    /\ UNCHANGED <<dir_created, pack, fn_in, fn_out, files, verbose, pool, task, processed_count, skipped_large,
                   skipped_unsupported, results, guard, poisoned, final_count, disk, ret, stderr>>

\* Lines 43-55 when create_dir_all fails: .ok() drops the error and generate
\* goes on all the same.
StartNoDir ==
    /\ pc = "start"
    /\ dir_created' = FALSE
    /\ IF Len(files) = 0
          THEN /\ ret' = Some(OkMsg("No files to process for Stage 2.", 0))
               /\ pc' = "done"
               /\ UNCHANGED stderr
          ELSE /\ pc' = "par"
               /\ stderr' = IF verbose THEN Append(stderr, Line("Processing", Len(files)))
                                       ELSE stderr
               /\ UNCHANGED ret
    /\ UNCHANGED <<pack, fn_in, fn_out, files, verbose, pool, task, processed_count,
                   skipped_large, skipped_unsupported, results, guard, poisoned,
                   final_count, disk>>

NextFault ==
    \/ Next
    \/ StartNoDir
    \/ \E i \in Idx : PanicInParse(i)
    \/ \E i \in Idx : PanicInPush(i)
    \/ \E i \in Idx : LockPoisoned(i)
    \/ Unwind

SpecFault == Init /\ [][NextFault]_vars

\* -------------------------------------------- a long list, near its end
\* A run over a list longer than the reporting interval, taken up at a state
\* it passes through: the first Done entries, all copies of one small Rust
\* file, have been skeletonized one after the other, and the last entries
\* are still to be taken.  The run is followed until the for_each has
\* returned and the counters are loaded (line 125): no closure runs after that.
MaxTail == 2

\* The number of entries already finished: one or two short of the
\* interval, or one short of twice the interval.
DoneCounts ==
    {PROGRESS_REPORT_INTERVAL - 2, PROGRESS_REPORT_INTERVAL - 1,
     2 * PROGRESS_REPORT_INTERVAL - 1}

\* The last entries of the list: a file that is skeletonized or one that is not.
Tails == SeqsUpTo({P_ab_x_rs, P_n_txt}, MaxTail) \ {<<>>}

InitProgress ==
    \E done \in DoneCounts, tail \in Tails :
        /\ files = [k \in 1..done |-> P_ab_x_rs] \o tail
        /\ verbose \in BOOLEAN
        /\ pool \in 1..MaxWorkers
        /\ pc = "par"
        /\ task = [k \in 1..(done + Len(tail)) |->
                      IF k <= done
                          THEN [st |-> "done", read |-> TRUE, count |-> k,
                                outcome |-> "processed"]
                      ELSE Task0]
        /\ processed_count = done
        /\ skipped_large = 0
        /\ skipped_unsupported = 0
        /\ results = [k \in 1..done |->
                        <<P_ab_x_rs,
                          skeletonize_file(FS[P_ab_x_rs].content, Extension(P_ab_x_rs).val).val>>]
        /\ guard = 0
        /\ poisoned = FALSE
        /\ final_count = 0
        /\ disk = None
        /\ ret = None
        /\ stderr = (IF verbose
                        THEN <<Line("Processing", done + Len(tail))>>
                             \o [k \in 1..((done \div PROGRESS_REPORT_INTERVAL)) |->
                                    Line("Processed", k * PROGRESS_REPORT_INTERVAL)]
                        ELSE <<>>)
        /\ dir_created = TRUE
        /\ pack = "stage2"
        /\ fn_in = [op |-> "none"]
        /\ fn_out = None

NextProgress ==
    \/ \E i \in Idx : CheckSize(i)
    \/ \E i \in Idx : ReadFile(i)
    \/ \E i \in Idx : Skeletonize(i)
    \/ \E i \in Idx : Lock(i)
    \/ \E i \in Idx : Push(i)
    \/ \E i \in Idx : Unlock(i)
    \/ \E i \in Idx : Report(i)
    \/ Collect

SpecProgress == InitProgress /\ [][NextProgress]_vars

\* ------------------------------------------------- the functions on their own
\* The functions generate and skeletonize_file are built from, each called
\* once on an input drawn from a bounded set: fn_in is the call, fn_out what
\* it returned.

MaxStrLen == 3

RECURSIVE ConcatsUpTo(_, _)
\* The strings made of at most n pieces of T.
ConcatsUpTo(T, n) ==
    IF n = 0 THEN {<<>>}
    ELSE LET S == ConcatsUpTo(T, n - 1) IN S \cup {s \o t : s \in S, t \in T}

\* & < > " ' a ; and the tails "lt;" and "amp;" of an entity already in the text
EscTokens ==
    {<<38>>, <<60>>, <<62>>, <<34>>, <<39>>, <<97>>, <<59>>,
     <<108, 116, 59>>, <<97, 109, 112, 59>>}

EscStrings == ConcatsUpTo(EscTokens, MaxStrLen)

\* A path and one skeleton line, of MaxStrLen pieces together.
EscPairs ==
    UNION {{<<p, l>> : p \in ConcatsUpTo(EscTokens, k),
                       l \in ConcatsUpTo(EscTokens, MaxStrLen - k)} : k \in 0..MaxStrLen}

\* ---- safe_slice
\* str::is_char_boundary: the ends of the string, or a byte that is not a
\* continuation byte (10xxxxxx).
is_char_boundary(s, idx) ==
    IF idx = 0 \/ idx = Len(s) THEN TRUE
    ELSE IF idx > Len(s) THEN FALSE
    ELSE s[idx + 1] < 128 \/ s[idx + 1] >= 192

\* str::get(a..b): the bytes a..b-1 when both ends are character boundaries.
str_get(s, a, b) ==
    IF a <= b /\ b <= Len(s) /\ is_char_boundary(s, a) /\ is_char_boundary(s, b)
        THEN Some(SubSeq(s, a + 1, b))
    ELSE None

RECURSIVE WalkBack(_, _)
\* while a > 0 && !s.is_char_boundary(a) { a -= 1 }
WalkBack(s, a) == IF a > 0 /\ ~is_char_boundary(s, a) THEN WalkBack(s, a - 1) ELSE a

RECURSIVE WalkForward(_, _)
\* while b < s.len() && !s.is_char_boundary(b) { b += 1 }
WalkForward(s, b) ==
    IF b < Len(s) /\ ~is_char_boundary(s, b) THEN WalkForward(s, b + 1) ELSE b

\* Mutant: the bytes are cut where the offsets say.
safe_slice_Raw(s, start, end) ==
    IF start > end \/ end > Len(s) THEN None ELSE Some(SubSeq(s, start + 1, end))

safe_slice(s, start, end) ==
    IF start > end \/ end > Len(s) THEN None
    ELSE str_get(s, WalkBack(s, start), WalkForward(s, end))

\* a, space, e-acute (2 bytes), the midline ellipsis of CHUNK_SEPARATOR (3 bytes)
Utf8Tokens == {<<97>>, <<32>>, <<195, 169>>, <<226, 139, 175>>}

Utf8Strings == ConcatsUpTo(Utf8Tokens, MaxStrLen)

SliceInputs ==
    UNION {[op : {"safe_slice"}, s : {c}, start : 0..(Len(c) + 1), end : 0..(Len(c) + 1)]
            : c \in Utf8Strings}

\* ---- the extension match
\* j s x m c t r p y and an upper-case J
ExtTokens == {<<106>>, <<115>>, <<120>>, <<109>>, <<99>>, <<116>>, <<114>>, <<112>>,
              <<121>>, <<74>>}

ExtStrings == ConcatsUpTo(ExtTokens, MaxStrLen)

\* ---- the match loop of skeletonize_file
\* A syntax node: its id and byte range.  A query match: the node of each
\* capture name it carries.
Node(id, start, end) == [id |-> id, start |-> start, end |-> end]

DefBody(def, body) == [def |-> Some(def), body |-> Some(body), capture |-> None]

Capture(node) == [def |-> None, body |-> None, capture |-> Some(node)]

\* "mod m{fn f(){}}" under RUST_QUERY: the mod_item is a capture, the
\* function_item inside it a definition with its block.
SRC_mod ==
    [ext |-> EXT_RS,
     content |-> <<109, 111, 100, 32, 109, 123, 102, 110, 32, 102, 40, 41, 123, 125, 125>>,
     matches |-> <<Capture(Node(1, 0, 15)),
                   DefBody(Node(2, 6, 14), Node(3, 12, 14))>>]

\* "const f=()=>1;" under JAVASCRIPT_QUERY: the lexical_declaration and the
\* arrow_function in it are both definitions, with the same body.
SRC_arrow ==
    [ext |-> EXT_JS,
     content |-> <<99, 111, 110, 115, 116, 32, 102, 61, 40, 41, 61, 62, 49, 59>>,
     matches |-> <<DefBody(Node(1, 0, 14), Node(4, 12, 13)),
                   DefBody(Node(3, 8, 13), Node(4, 12, 13))>>]

\* "fn e'(){} fn g(){}" (e' is e-acute, two bytes) under RUST_QUERY: two
\* function_items side by side.
SRC_two ==
    [ext |-> EXT_RS,
     content |-> <<102, 110, 32, 195, 169, 40, 41, 123, 125, 32,
                   102, 110, 32, 103, 40, 41, 123, 125>>,
     matches |-> <<DefBody(Node(1, 0, 9), Node(2, 7, 9)),
                   DefBody(Node(3, 10, 18), Node(4, 16, 18))>>]

\* "const a=()=>1,b=()=>2;" under JAVASCRIPT_QUERY: the lexical_declaration
\* matches once per declarator, each arrow_function once.
SRC_decl ==
    [ext |-> EXT_JS,
     content |-> <<99, 111, 110, 115, 116, 32, 97, 61, 40, 41, 61, 62, 49, 44,
                   98, 61, 40, 41, 61, 62, 50, 59>>,
     matches |-> <<DefBody(Node(1, 0, 22), Node(4, 12, 13)),
                   DefBody(Node(1, 0, 22), Node(7, 20, 21)),
                   DefBody(Node(3, 8, 13), Node(4, 12, 13)),
                   DefBody(Node(6, 16, 21), Node(7, 20, 21))>>]

Sources == {SRC_mod, SRC_arrow, SRC_two, SRC_decl}

\* The orders in which a cursor may hand out n matches.
Orders(n) == {o \in [1..n -> 1..n] : \A i, j \in 1..n : o[i] = o[j] => i = j}

WS == {9, 10, 11, 12, 13, 32}

RECURSIVE TrimStart(_)
TrimStart(s) == IF s # <<>> /\ Head(s) \in WS THEN TrimStart(Tail(s)) ELSE s

RECURSIVE TrimEnd(_)
TrimEnd(s) ==
    IF s # <<>> /\ s[Len(s)] \in WS THEN TrimEnd(SubSeq(s, 1, Len(s) - 1)) ELSE s

\* str::trim
Trim(s) == TrimEnd(TrimStart(s))

RECURSIVE from_utf8(_)
\* Whether the bytes are well-formed UTF-8 (one- to three-byte sequences).
from_utf8(t) ==
    IF t = <<>> THEN TRUE
    ELSE IF t[1] < 128 THEN from_utf8(Tail(t))
    ELSE IF t[1] \in 194..223
        THEN Len(t) >= 2 /\ t[2] \in 128..191 /\ from_utf8(SubSeq(t, 3, Len(t)))
    ELSE IF t[1] \in 224..239
        THEN Len(t) >= 3 /\ t[2] \in 128..191 /\ t[3] \in 128..191
             /\ from_utf8(SubSeq(t, 4, Len(t)))
    ELSE FALSE

\* Node::utf8_text
utf8_text(content, node) ==
    LET t == SubSeq(content, node.start + 1, node.end)
    IN IF from_utf8(t) THEN Some(t) ELSE None

\* Mutant: the definition is sliced to its own end, body included.
Signature_WithBody(content, def, body) == safe_slice(content, def.start, def.end)

\* Lines 188-191: the text from the definition's start to the body's start.
Signature(content, def, body) ==
    IF body.start >= def.start THEN safe_slice(content, def.start, body.start) ELSE None

\* results.push(t.to_string()) when the trimmed text is not empty.  A chunk
\* remembers the match m it came from; the program keeps the text only.
PushTrimmed(res, text, m) ==
    IF text.some /\ Trim(text.val) # <<>>
        THEN Append(res, [text |-> Trim(text.val), m |-> m])
    ELSE res

RECURSIVE MatchLoop_NoSeen(_, _, _, _, _)
\* Mutant: seen_ids is never consulted.
MatchLoop_NoSeen(src, order, k, res, seen_ids) ==
    IF k > Len(order) THEN res
    ELSE LET m == src.matches[order[k]]
             text == IF m.def.some /\ m.body.some
                         THEN Signature(src.content, m.def.val, m.body.val)
                     ELSE IF m.capture.some THEN utf8_text(src.content, m.capture.val)
                     ELSE IF m.def.some THEN utf8_text(src.content, m.def.val)
                     ELSE None
         IN  MatchLoop_NoSeen(src, order, k + 1, PushTrimmed(res, text, order[k]), seen_ids)

RECURSIVE MatchLoop(_, _, _, _, _)
\* Lines 174-232: the matches src.matches in the order the cursor gives
\* them, from the k-th on.
MatchLoop(src, order, k, res, seen_ids) ==
    IF k > Len(order) THEN res
    ELSE LET m == src.matches[order[k]] IN
         IF m.def.some /\ m.body.some THEN
             IF m.def.val.id \in seen_ids
                 THEN MatchLoop(src, order, k + 1, res, seen_ids)
             ELSE MatchLoop(src, order, k + 1,
                            PushTrimmed(res,
                                        Signature(src.content, m.def.val, m.body.val),
                                        order[k]),
                            seen_ids \cup {m.def.val.id})
         ELSE IF m.capture.some THEN
             IF m.capture.val.id \in seen_ids
                 THEN MatchLoop(src, order, k + 1, res, seen_ids)
             ELSE MatchLoop(src, order, k + 1,
                            PushTrimmed(res, utf8_text(src.content, m.capture.val),
                                        order[k]),
                            seen_ids \cup {m.capture.val.id})
         ELSE IF m.def.some THEN
             IF m.def.val.id \in seen_ids
                 THEN MatchLoop(src, order, k + 1, res, seen_ids)
             ELSE MatchLoop(src, order, k + 1,
                            PushTrimmed(res, utf8_text(src.content, m.def.val),
                                        order[k]),
                            seen_ids \cup {m.def.val.id})
         ELSE MatchLoop(src, order, k + 1, res, seen_ids)

\* Matches as the loop may be handed them, whatever the grammar and the
\* query: over the content " a ", the nodes N_all (the whole text), N_a (the
\* letter), N_sp (the leading space), N_end (the last byte) and N_out, which
\* lies past the end.
N_all == Node(1, 0, 3)
N_a == Node(2, 1, 2)
N_sp == Node(3, 0, 1)
N_end == Node(5, 2, 3)
N_out == Node(4, 4, 5)

DefOnly(def) == [def |-> Some(def), body |-> None, capture |-> None]

AnyMatches ==
    {DefBody(N_all, N_a),    \* the signature is white space only
     DefBody(N_all, N_end),  \* the signature is " a"
     DefBody(N_a, N_out),    \* the slice is rejected: it ends past the content
     DefBody(N_a, N_sp),     \* the body starts before the definition
     Capture(N_all), Capture(N_a), Capture(N_sp),
     DefOnly(N_all)}

RECURSIVE MatchSeqs(_)
\* The non-empty sequences of at most n matches.
MatchSeqs(n) ==
    IF n = 0 THEN {}
    ELSE {<<m>> : m \in AnyMatches}
         \cup {Append(q, m) : q \in MatchSeqs(n - 1), m \in AnyMatches}

LoopInputs ==
    {[op |-> "match_loop",
      src |-> [ext |-> EXT_RS, content |-> <<32, 97, 32>>, matches |-> q],
      order |-> [k \in 1..Len(q) |-> k]] : q \in MatchSeqs(MaxStrLen)}

SkeletonInputs ==
    UNION {[op : {"skeletonize_file"}, src : {src}, order : Orders(Len(src.matches))]
            : src \in Sources}

\* ---- extract_line_range (request.rs)
\* str::lines: the pieces between line feeds, a final empty piece dropped, a
\* carriage return at the end of a piece removed.
StripCr(l) == IF l # <<>> /\ l[Len(l)] = 13 THEN SubSeq(l, 1, Len(l) - 1) ELSE l

Lines(content) ==
    LET pieces == SplitOn(content, 10, <<>>)
        kept == IF pieces[Len(pieces)] = <<>> THEN SubSeq(pieces, 1, Len(pieces) - 1)
                ELSE pieces
    IN  [k \in 1..Len(kept) |-> StripCr(kept[k])]

RECURSIVE JoinWith(_, _)
\* [&str]::join(sep)
JoinWith(ls, sep) ==
    IF ls = <<>> THEN <<>>
    ELSE IF Len(ls) = 1 THEN ls[1]
    ELSE ls[1] \o sep \o JoinWith(Tail(ls), sep)

RECURSIVE DigitsValue(_, _)
\* The number the decimal digits ds write, after the digits that gave acc.
DigitsValue(ds, acc) ==
    IF ds = <<>> THEN acc ELSE DigitsValue(Tail(ds), 10 * acc + (Head(ds) - 48))

\* str::parse::<usize>: an optional '+' and one or more decimal digits.
parse_usize(t) ==
    LET ds == IF t # <<>> /\ Head(t) = 43 THEN Tail(t) ELSE t
    IN  IF ds # <<>> /\ \A k \in 1..Len(ds) : ds[k] \in 48..57
            THEN Some(DigitsValue(ds, 0))
        ELSE None

\* str::split_once('-'): the text before and after the first '-'.
split_once(t, c) ==
    LET hits == {k \in 1..Len(t) : t[k] = c}
    IN  IF hits = {} THEN None
        ELSE LET k == CHOOSE k \in hits : \A j \in hits : k <= j
             IN  Some(<<SubSeq(t, 1, k - 1), SubSeq(t, k + 1, Len(t))>>)

InvalidLineRange == [kind |-> "Err", err |-> "InvalidLineRange"]

\* Mutant: the slice is taken one line late.
ExtractLines_OffByOne(lines, start, end) ==
    LET total == Len(lines)
    IN  IF start < 1 \/ start > total \/ end < start \/ end > total THEN InvalidLineRange
        ELSE [kind |-> "Ok",
              extracted |-> JoinWith(SubSeq(lines, start + 1, end), <<10>>),
              info |-> [start |-> start, end |-> end, total |-> total]]

\* Lines 203-219: the bounds check, lines[(start - 1)..end].join("\n") and
\* the info "lines {start}-{end} of {total}".
ExtractLines(lines, start, end) ==
    LET total == Len(lines)
    IN  IF start < 1 \/ start > total \/ end < start \/ end > total THEN InvalidLineRange
        ELSE [kind |-> "Ok",
              extracted |-> JoinWith(SubSeq(lines, start, end), <<10>>),
              info |-> [start |-> start, end |-> end, total |-> total]]

\* Lines 178-222.
extract_line_range(content, range_spec) ==
    LET lines == Lines(content)
        total == Len(lines)
        parts == split_once(range_spec, 45)
    IN  IF parts.some
            THEN LET start == parse_usize(Trim(parts.val[1]))
                     end == IF Trim(parts.val[2]) = <<>> THEN Some(total)
                            ELSE parse_usize(Trim(parts.val[2]))
                 IN  IF ~start.some \/ ~end.some THEN InvalidLineRange
                     ELSE ExtractLines(lines, start.val, end.val)
        ELSE LET line == parse_usize(Trim(range_spec))
             IN  IF ~line.some THEN InvalidLineRange
                 ELSE ExtractLines(lines, line.val, line.val)

\* 0 1 2 3 - space + x
RangeTokens == {<<48>>, <<49>>, <<50>>, <<51>>, <<45>>, <<32>>, <<43>>, <<120>>}

RangeStrings == ConcatsUpTo(RangeTokens, MaxStrLen)

\* "", "a", "a\nb", "a\nb\n", "a\r\nb\nc"
Contents ==
    {<<>>, <<97>>, <<97, 10, 98>>, <<97, 10, 98, 10>>, <<97, 13, 10, 98, 10, 99>>}

\* ---- resolve (request.rs)
\* glob::Pattern::new: the tokens of a pattern, or None for a pattern the
\* crate rejects (three stars in a row, two stars that are not a whole path
\* component, a '[' that is never closed).  prev is the character before p,
\* a separator at the start.
StarToken == [t |-> "seq", c |-> 0]

RecToken == [t |-> "rec", c |-> 0]

RECURSIVE GlobParse(_, _)
GlobParse(p, prev) ==
    IF p = <<>> THEN Some(<<>>)
    ELSE IF Head(p) = 91 THEN None
    ELSE IF Head(p) = 42 THEN
        IF Len(p) >= 3 /\ p[2] = 42 /\ p[3] = 42 THEN None
        ELSE IF Len(p) >= 2 /\ p[2] = 42 THEN
            IF prev # 47 THEN None
            ELSE IF Len(p) = 2 THEN Some(<<RecToken>>)
            ELSE IF p[3] # 47 THEN None
            ELSE LET rest == GlobParse(SubSeq(p, 4, Len(p)), 47)
                 IN  IF rest.some THEN Some(<<RecToken>> \o rest.val) ELSE None
        ELSE LET rest == GlobParse(Tail(p), 42)
             IN  IF rest.some THEN Some(<<StarToken>> \o rest.val) ELSE None
    ELSE LET rest == GlobParse(Tail(p), Head(p))
             tok == IF Head(p) = 63 THEN [t |-> "any", c |-> 0]
                    ELSE [t |-> "char", c |-> Head(p)]
         IN  IF rest.some THEN Some(<<tok>> \o rest.val) ELSE None

RECURSIVE GlobMatch(_, _)
\* glob::Pattern::matches with the default options: '?' is any one
\* character, '*' any run of characters, a '**' component any run of whole
\* directories.
GlobMatch(toks, str) ==
    IF toks = <<>> THEN str = <<>>
    ELSE IF Head(toks).t = "char"
        THEN str # <<>> /\ Head(str) = Head(toks).c /\ GlobMatch(Tail(toks), Tail(str))
    ELSE IF Head(toks).t = "any"
        THEN str # <<>> /\ GlobMatch(Tail(toks), Tail(str))
    ELSE \E k \in 0..Len(str) :
            /\ Head(toks).t = "rec" => (k = 0 \/ k = Len(str) \/ str[k] = 47)
            /\ GlobMatch(Tail(toks), SubSeq(str, k + 1, Len(str)))

\* PathBuf == PathBuf: the same components, both absolute or both relative.
PathEq(a, b) ==
    /\ (a # <<>> /\ Head(a) = 47) <=> (b # <<>> /\ Head(b) = 47)
    /\ Components(a) = Components(b)

\* "src/main.rs" (two lines), "src/lib.rs" (one line) and "t/a.py", which is
\* in the list and can no longer be read.
F_main == <<115, 114, 99, 47, 109, 97, 105, 110, 46, 114, 115>>
F_lib == <<115, 114, 99, 47, 108, 105, 98, 46, 114, 115>>
F_a_py == <<116, 47, 97, 46, 112, 121>>

available_files == <<F_main, F_lib, F_a_py>>

\* fs::read_to_string(base_dir.join(relative_path))
ReadUnder(path) ==
    IF PathEq(path, F_main) THEN Some(<<97, 10, 98>>)
    ELSE IF PathEq(path, F_lib) THEN Some(<<97>>)
    ELSE None

ErrOf(e) == [kind |-> "Err", err |-> e]

\* Mutant: a single path is taken as it is, in the list or not.
find_matching_files_Unchecked(target, available) ==
    IF target.t = "path" THEN [kind |-> "Ok", paths |-> <<target.s>>]
    ELSE LET toks == GlobParse(target.s, 47)
             matches == SelectSeq(available,
                            LAMBDA q : toks.some /\ GlobMatch(toks.val, Replace(q, 92, <<47>>)))
         IN  IF ~toks.some THEN ErrOf("InvalidPattern")
             ELSE IF matches = <<>> THEN ErrOf("NoMatches")
             ELSE [kind |-> "Ok", paths |-> matches]

\* Lines 111-144.
find_matching_files(target, available) ==
    IF target.t = "path"
        THEN IF \E k \in 1..Len(available) : PathEq(available[k], target.s)
                 THEN [kind |-> "Ok", paths |-> <<target.s>>]
             ELSE ErrOf("FileNotFound")
    ELSE LET toks == GlobParse(target.s, 47)
             matches == SelectSeq(available,
                            LAMBDA q : toks.some /\ GlobMatch(toks.val, Replace(q, 92, <<47>>)))
         IN  IF ~toks.some THEN ErrOf("InvalidPattern")
             ELSE IF matches = <<>> THEN ErrOf("NoMatches")
             ELSE [kind |-> "Ok", paths |-> matches]

\* Lines 147-175: the file read and cut to the range, or None for the Err
\* that resolve drops.
read_file_with_range(path, range) ==
    LET full_content == ReadUnder(path)
    IN  IF ~full_content.some THEN None
        ELSE IF ~range.some THEN Some([path |-> path, content |-> full_content.val])
        ELSE LET cut == extract_line_range(full_content.val, range.val)
             IN  IF cut.kind = "Ok" THEN Some([path |-> path, content |-> cut.extracted])
                 ELSE None

RECURSIVE FilterMapRead(_, _)
\* Lines 97-104: filter_map(|p| self.read_file_with_range(..).ok()).
FilterMapRead(paths, range) ==
    IF paths = <<>> THEN <<>>
    ELSE LET f == read_file_with_range(Head(paths), range)
         IN  (IF f.some THEN <<f.val>> ELSE <<>>) \o FilterMapRead(Tail(paths), range)

\* Lines 92-109.
resolve(target, range, available) ==
    LET matching_paths == find_matching_files(target, available)
    IN  IF matching_paths.kind = "Err" THEN matching_paths
        ELSE [kind |-> "Ok", files |-> FilterMapRead(matching_paths.paths, range)]

\* "src/" "main.rs" "lib.rs" "/" "t/" "a.py" "x"
PathTokens ==
    {<<115, 114, 99, 47>>, <<109, 97, 105, 110, 46, 114, 115>>, <<108, 105, 98, 46, 114, 115>>,
     <<47>>, <<116, 47>>, <<97, 46, 112, 121>>, <<120>>}

\* "*" "?" "src/" ".rs" ".py" "[" "main" "/"
PatternTokens ==
    {<<42>>, <<63>>, <<115, 114, 99, 47>>, <<46, 114, 115>>, <<46, 112, 121>>, <<91>>,
     <<109, 97, 105, 110>>, <<47>>}

Targets ==
    [t : {"path"}, s : ConcatsUpTo(PathTokens, MaxStrLen)]
    \cup [t : {"pattern"}, s : ConcatsUpTo(PatternTokens, MaxStrLen)]

\* No range, or the lines "2-".
Ranges == {None, Some(<<50, 45>>)}

FnInputs ==
    [op : {"escape_xml_content", "escape_xml_attr"}, s : EscStrings]
    \cup {[op |-> "serialize", path |-> e[1], line |-> e[2]] : e \in EscPairs}
    \cup SliceInputs
    \cup [op : {"language"}, ext : ExtStrings]
    \cup SkeletonInputs
    \cup [op : {"extract_line_range"}, content : Contents, range_spec : RangeStrings]
    \cup [op : {"resolve"}, target : Targets, range : Ranges]
    \cup LoopInputs

InitFn ==
    /\ fn_in \in FnInputs
    /\ fn_out = None
    /\ pc = "call"
    /\ pack = "none"
    /\ dir_created = FALSE
    /\ files = <<>>
    /\ verbose = FALSE
    /\ pool = 1
    /\ task = <<>>
    /\ processed_count = 0
    /\ skipped_large = 0
    /\ skipped_unsupported = 0
    /\ results = <<>>
    /\ guard = 0
    /\ poisoned = FALSE
    /\ final_count = 0
    /\ disk = None
    /\ ret = None
    /\ stderr = <<>>

\* The call returns out.
Return(op, out) ==
    /\ pc = "call"
    /\ fn_in.op = op
    /\ fn_out' = out
    /\ pc' = "returned"
    /\ UNCHANGED <<dir_created, pack, fn_in, files, verbose, pool, task, processed_count,
                   skipped_large, skipped_unsupported, results, guard, poisoned,
                   final_count, disk, ret, stderr>>

EscapeContent ==
    /\ fn_in.op = "escape_xml_content"
    /\ Return("escape_xml_content", Some(escape_xml_content(fn_in.s)))

EscapeAttr ==
    /\ fn_in.op = "escape_xml_attr"
    /\ Return("escape_xml_attr", Some(escape_xml_attr(fn_in.s)))

\* Lines 132-151 on one result: a path and its one-line skeleton.
SerializeBlocks ==
    /\ fn_in.op = "serialize"
    /\ Return("serialize", Some(Serialize(<< <<fn_in.path, <<fn_in.line>> >> >>)))

SafeSlice ==
    /\ fn_in.op = "safe_slice"
    /\ Return("safe_slice", safe_slice(fn_in.s, fn_in.start, fn_in.end))

\* Lines 119-130: the grammar and query chosen for an extension.
SelectLanguage ==
    /\ fn_in.op = "language"
    /\ Return("language", LangOf(fn_in.ext))

\* skeletonize_file on a source whose parse and query matches are known: the
\* chunks the match loop collected, and the skeleton returned.
SkeletonizeFile ==
    /\ fn_in.op = "skeletonize_file"
    /\ LET chunks == MatchLoop(fn_in.src, fn_in.order, 1, <<>>, {})
       IN Return("skeletonize_file",
                 [chunks |-> chunks,
                  skeleton |-> skeletonize_file(
                                  Text("ok", [i \in 1..Len(chunks) |-> chunks[i].text]),
                                  fn_in.src.ext)])

\* Lines 174-238 on a list of matches given as such.
RunMatchLoop ==
    /\ fn_in.op = "match_loop"
    /\ LET chunks == MatchLoop(fn_in.src, fn_in.order, 1, <<>>, {})
       IN Return("match_loop",
                 [chunks |-> chunks,
                  skeleton |-> skeletonize_file(
                                  Text("ok", [i \in 1..Len(chunks) |-> chunks[i].text]),
                                  fn_in.src.ext)])

ExtractLineRange ==
    /\ fn_in.op = "extract_line_range"
    /\ Return("extract_line_range", extract_line_range(fn_in.content, fn_in.range_spec))

Resolve ==
    /\ fn_in.op = "resolve"
    /\ Return("resolve", resolve(fn_in.target, fn_in.range, available_files))

NextFn ==
    \/ EscapeContent
    \/ EscapeAttr
    \/ SerializeBlocks
    \/ SafeSlice
    \/ SelectLanguage
    \/ SkeletonizeFile
    \/ ExtractLineRange
    \/ Resolve
    \/ RunMatchLoop

SpecFn == InitFn /\ [][NextFn]_vars

\* ------------------------------------------------ reference, file by file
\* What one entry comes to when it is processed alone, in program order.
ExpectedOutcome(p) ==
    IF FS[p].meta.some /\ FS[p].meta.val > MAX_FILE_SIZE_FOR_PARSING THEN "large"
    ELSE IF ~Extension(p).some THEN "unsupported"
    ELSE IF ~FS[p].readable THEN "unsupported"
    ELSE IF ~skeletonize_file(FS[p].content, Extension(p).val).some THEN "unsupported"
    ELSE "processed"

\* The results of a run on one worker that takes the entries in list order.
SequentialResults ==
    LET ok == SelectSeq(files, LAMBDA p : ExpectedOutcome(p) = "processed")
    IN  [k \in 1..Len(ok) |->
            <<ok[k], skeletonize_file(FS[ok[k]].content, Extension(ok[k]).val).val>>]

SequentialSummary ==
    IF Len(files) = 0 THEN OkMsg("No files to process for Stage 2.", 0)
    ELSE IF SequentialResults = <<>>
        THEN OkMsg("No supported files found for Stage 2 skeletonization.", 0)
    ELSE OkMsg("Stage-2: Wrote compressed skeleton", Len(SequentialResults))

Oversized(p) == FS[p].meta.some /\ FS[p].meta.val > MAX_FILE_SIZE_FOR_PARSING

WithOutcome(o) == {i \in Idx : task[i].outcome = o}

\* Index of the <file> line of path p in the artifact, 0 if it has none.
BlockPos(p) ==
    LET hits == {k \in 1..Len(disk.val) :
                    disk.val[k].t = "file" /\ disk.val[k].text = escape_xml_attr(Display(p))}
    IN  IF hits = {} THEN 0 ELSE CHOOSE k \in hits : TRUE

BlockCount == Cardinality({k \in 1..Len(disk.val) : disk.val[k].t = "file"})

\* Each counter equals the number of entries that took that exit.
CountersMatchOutcomes ==
    /\ skipped_large = Cardinality(WithOutcome("large"))
    /\ skipped_unsupported = Cardinality(WithOutcome("unsupported"))
    /\ processed_count = Cardinality({i \in Idx : task[i].count > 0})
    /\ \A i \in Idx : task[i].count > 0 => task[i].outcome \in {"none", "processed"}

\* ----------------------------------------------------------------- claims
\* C1: for a fixed input list the artifact and the returned summary do not
\* depend on the interleaving of the workers or on the pool size: whenever
\* generate has returned, the artifact on disk (if written) is the one the
\* sequential in-order run writes, and a success summary is that run's summary.
C1_Deterministic ==
    pc = "done" =>
        /\ disk.some => disk.val = Serialize(SequentialResults)
        /\ ret.val.kind = "Ok" => ret.val = SequentialSummary
        /\ ret.val.kind = "Ok" /\ SequentialResults # <<>> => disk.some

\* Two results pushed in descending path order by a pool of two workers, the
\* input list being in ascending order, and the artifact written.
C1_Witness ==
    /\ pc = "done"
    /\ disk.some
    /\ pool > 1
    /\ Len(results) = 2
    /\ PathCmp(results[1][1], results[2][1]) > 0
    /\ results # SequentialResults

\* C2: in the written artifact the <file> blocks are in ascending order of
\* their paths, whatever the completion order and the input order were.
C2_BlocksAscending ==
    disk.some =>
        \A p, q \in Paths :
            (BlockPos(p) > 0 /\ BlockPos(q) > 0 /\ PathCmp(p, q) < 0)
                => BlockPos(p) < BlockPos(q)

\* An artifact with two blocks whose results were pushed in descending order
\* from an input list in descending order.
C2_Witness ==
    /\ disk.some
    /\ BlockCount = 2
    /\ Len(results) = 2
    /\ PathCmp(results[1][1], results[2][1]) > 0
    /\ \E i, j \in Idx : i < j /\ files[i] = results[1][1] /\ files[j] = results[2][1]

\* C3: a file whose size, as fs::metadata reports it, exceeds the 5 MiB
\* ceiling is never read, never gets a result or a block, and is counted in
\* skipped_large once and in no other counter.
C3_OversizedNeverRead ==
    /\ CountersMatchOutcomes
    /\ \A i \in Idx :
        Oversized(files[i]) =>
            /\ ~task[i].read
            /\ task[i].st \in {"pending", "done"}
            /\ task[i].count = 0
            /\ task[i].st = "done" => task[i].outcome = "large"
            /\ \A k \in 1..Len(results) : results[k][1] # files[i]
            /\ disk.some => BlockPos(files[i]) = 0

\* The run has ended with an oversized file skipped and another file written.
C3_Witness ==
    /\ pc = "done"
    /\ disk.some
    /\ skipped_large = 1
    /\ \E i \in Idx : Oversized(files[i]) /\ task[i].outcome = "large"

\* C4: a file whose extension is missing or not a recognized one is counted
\* as unsupported with no attempt to read it.
C4_UnsupportedNeverRead ==
    \A i \in Idx :
        (~Extension(files[i]).some \/ ~LangOf(Extension(files[i]).val).some)
            => ~task[i].read

C6_CountersSum ==
    /\ processed_count + skipped_large + skipped_unsupported
         = Cardinality({i \in Idx : task[i].count > 0 \/ task[i].outcome # "none"})
    /\ (\A i \in Idx : task[i].st = "done")
         => processed_count + skipped_large + skipped_unsupported = Len(files)

\* A pool of two workers has finished a list with two skeletonized files and
\* a skipped one.
C6_Witness ==
    /\ pc = "done"
    /\ pool > 1
    /\ processed_count = 2
    /\ skipped_large + skipped_unsupported = 1
    /\ \A i \in Idx : task[i].st = "done"

\* C7: when the artifact is written, its number of <file> blocks equals
\* final_count, the processed counter, the number of entries that were
\* skeletonized and the count of the returned summary; a skipped file has no
\* block.
C7_BlocksEqualProcessed ==
    disk.some =>
        /\ BlockCount = final_count
        /\ final_count = processed_count
        /\ final_count = Cardinality({i \in Idx : ExpectedOutcome(files[i]) = "processed"})
        /\ ret.val = OkMsg("Stage-2: Wrote compressed skeleton", final_count)
        /\ \A i \in Idx : ExpectedOutcome(files[i]) # "processed" => BlockPos(files[i]) = 0

\* The written artifact has two blocks and the list also held a skipped file.
C7_Witness ==
    /\ disk.some
    /\ BlockCount = 2
    /\ Len(files) = 3
    /\ skipped_large + skipped_unsupported = 1

\* C8: when the batch yields no skeleton, the artifact exists after generate
\* returns, as an empty-bodied well-formed document, and the caller gets a
\* placeholder message.
C8_EmptyBatchArtifact ==
    (pc = "done" /\ ret.val.kind = "Ok" /\ SequentialResults = <<>>) =>
        /\ ret.val.msg \in {"No files to process for Stage 2.",
                            "No supported files found for Stage 2 skeletonization."}
        /\ disk.some
        /\ disk.val = Serialize(<<>>)

\* C9: a panic inside the processing of one file is contained: generate
\* returns to its caller with an error value.
C9_PanicContained ==
    (pc \in {"done", "unwound"} /\ \E i \in Idx : task[i].st = "panicked")
        => (pc = "done" /\ ret.some /\ ret.val.kind = "Err")

\* C10: when the results mutex is poisoned, generate returns a dedicated
\* fatal error kind rather than panicking.
C10_PoisonIsError ==
    (pc \in {"done", "unwound"} /\ poisoned)
        => (pc = "done" /\ ret.some /\ ret.val.kind = "Err" /\ ret.val.msg = "MutexPoisoned")

\* C11: when creating the output directory fails, generate returns an error
\* and stops: no file is processed and no success message is returned.
C11_NoDirIsError ==
    (pc # "start" /\ ~dir_created) =>
        /\ pc = "done"
        /\ ret.val.kind = "Err"
        /\ \A i \in Idx : task[i].st = "pending"

\* C12: when the write of the artifact fails, generate returns an error
\* instead of a summary, and the pack run that called it stops with that error.
C12_WriteErrorFatal ==
    /\ (pc = "done" /\ final_count > 0 /\ ~disk.some) => ret.val.kind = "Err"
    /\ (pack # "stage2" /\ ret.val.kind = "Err") => pack = "failed"

\* C13: the artifact is written in one step, after every worker has finished:
\* serialization starts only when all closures have returned and the mutex is
\* free, the file on disk is never anything but the serialization of all the
\* results, one block per skeletonized file, and once serialization has begun
\* the results and the written file do not change.
C13_SingleWrite ==
    /\ [](/\ (pc \in {"write", "done"}) =>
                (guard = 0 /\ \A i \in Idx : task[i].st = "done")
          /\ disk.some =>
                /\ pc = "done"
                /\ disk.val = Serialize(results)
                /\ BlockCount = Cardinality(WithOutcome("processed"))
                /\ \A i \in Idx : task[i].outcome = "processed" => BlockPos(files[i]) > 0)
    /\ [][(pc \in {"write", "done"}) =>
            (results' = results /\ (disk.some => disk' = disk))]_vars

\* An artifact with two blocks written after a pool of two workers has finished.
C13_Witness ==
    /\ pc = "done"
    /\ disk.some
    /\ pool > 1
    /\ BlockCount = 2
    /\ Len(files) = 3

\* The entity the escaping functions write for byte c.
EntityOf(c) ==
    CASE c = 38 -> AMP
      [] c = 60 -> LT
      [] c = 62 -> GT
      [] c = 34 -> QUOT
      [] c = 39 -> APOS
      [] OTHER -> <<c>>

RECURSIVE EscapeEach(_, _)
\* s with every byte of the set special replaced by its entity, byte by byte.
EscapeEach(s, special) ==
    IF s = <<>> THEN <<>>
    ELSE (IF Head(s) \in special THEN EntityOf(Head(s)) ELSE <<Head(s)>>)
         \o EscapeEach(Tail(s), special)

StartsWith(s, e) == Len(s) >= Len(e) /\ SubSeq(s, 1, Len(e)) = e

\* Every ampersand of t begins one of the five entities.
AmpsAreEntities(t) ==
    \A i \in 1..Len(t) :
        t[i] = 38 => \E e \in {AMP, LT, GT, QUOT, APOS} : StartsWith(SubSeq(t, i, Len(t)), e)

Has(t, c) == \E i \in 1..Len(t) : t[i] = c

\* C14: in the artifact every skeleton line is its source line with each
\* & < > replaced by the entity, every path label its path with & < > and
\* the quotes replaced; no raw < or >, no ampersand that does not begin an
\* entity, and no raw double quote in a label.
C14_ArtifactEscaped ==
    (fn_in.op = "serialize" /\ fn_out.some) =>
        /\ Cardinality({k \in 1..Len(fn_out.val) : fn_out.val[k].t = "file"}) = 1
        /\ Cardinality({k \in 1..Len(fn_out.val) : fn_out.val[k].t = "line"}) = 1
        /\ \A k \in 1..Len(fn_out.val) :
              LET b == fn_out.val[k] IN
              /\ b.t = "line" =>
                    /\ b.text = EscapeEach(fn_in.line, {38, 60, 62})
                    /\ ~Has(b.text, 60) /\ ~Has(b.text, 62)
                    /\ AmpsAreEntities(b.text)
              /\ b.t = "file" =>
                    /\ b.text = EscapeEach(fn_in.path, {38, 60, 62, 34, 39})
                    /\ ~Has(b.text, 60) /\ ~Has(b.text, 62) /\ ~Has(b.text, 34)
                    /\ AmpsAreEntities(b.text)

\* A block whose path holds a quote and an ampersand and whose line holds "<".
C14_Witness ==
    /\ fn_in.op = "serialize"
    /\ fn_out.some
    /\ Has(fn_in.path, 34) /\ Has(fn_in.path, 38)
    /\ Has(fn_in.line, 60)

RECURSIVE Unescape(_)
\* Standard unescaping of the five predefined entities, left to right.
Unescape(t) ==
    IF t = <<>> THEN <<>>
    ELSE IF StartsWith(t, AMP) THEN <<38>> \o Unescape(SubSeq(t, Len(AMP) + 1, Len(t)))
    ELSE IF StartsWith(t, LT) THEN <<60>> \o Unescape(SubSeq(t, Len(LT) + 1, Len(t)))
    ELSE IF StartsWith(t, GT) THEN <<62>> \o Unescape(SubSeq(t, Len(GT) + 1, Len(t)))
    ELSE IF StartsWith(t, QUOT) THEN <<34>> \o Unescape(SubSeq(t, Len(QUOT) + 1, Len(t)))
    ELSE IF StartsWith(t, APOS) THEN <<39>> \o Unescape(SubSeq(t, Len(APOS) + 1, Len(t)))
    ELSE <<Head(t)>> \o Unescape(Tail(t))

\* C15: unescaping what escape_xml_content or escape_xml_attr returned gives
\* back the argument, byte for byte.
C15_EscapeRoundTrip ==
    (fn_in.op \in {"escape_xml_content", "escape_xml_attr"} /\ fn_out.some) =>
        Unescape(fn_out.val) = fn_in.s

\* escape_xml_content was given the literal text "&lt;" and returned "&amp;lt;".
C15_Witness ==
    /\ fn_in.op = "escape_xml_content"
    /\ fn_in.s = LT
    /\ fn_out.some
    /\ fn_out.val = <<38, 97, 109, 112, 59, 108, 116, 59>>

\* The node a match is about: its definition, or its plain capture.
MainNode(m) == IF m.def.some THEN m.def.val ELSE m.capture.val

\* Two different nodes of one tree, one an ancestor of the other.
Nested(a, b) ==
    /\ a.id # b.id
    /\ \/ a.start <= b.start /\ b.end <= a.end
       \/ b.start <= a.start /\ a.end <= b.end

\* The source bytes a chunk was taken from.
ChunkSpan(src, c) ==
    LET m == src.matches[c.m]
    IN IF m.def.some /\ m.body.some
           THEN [start |-> m.def.val.start, end |-> m.body.val.start]
       ELSE [start |-> MainNode(m).start, end |-> MainNode(m).end]

Skeletonized == fn_in.op = "skeletonize_file" /\ pc = "returned"

\* C16: when the query matches a node and one of its ancestors,
\* skeletonize_file emits one chunk for that content: no two chunks of a
\* skeleton come from nodes nested in one another.
C16_OneChunkPerNesting ==
    Skeletonized =>
        \A i, j \in 1..Len(fn_out.chunks) :
            i # j => ~Nested(MainNode(fn_in.src.matches[fn_out.chunks[i].m]),
                             MainNode(fn_in.src.matches[fn_out.chunks[j].m]))

\* C17: the chunk of a match with a definition and a body is the trimmed
\* source text from the definition's start byte up to the body's start byte,
\* no longer than that range, it is emitted at most once and it is one
\* piece of the returned skeleton.
C17_SignatureOnly ==
    Skeletonized =>
        /\ \A i \in 1..Len(fn_out.chunks) :
              LET c == fn_out.chunks[i]
                  m == fn_in.src.matches[c.m]
              IN (m.def.some /\ m.body.some) =>
                    /\ c.text = Trim(SubSeq(fn_in.src.content, m.def.val.start + 1,
                                            m.body.val.start))
                    /\ Len(c.text) <= m.body.val.start - m.def.val.start
                    /\ fn_out.skeleton.some
                    /\ \E k \in 1..Len(fn_out.skeleton.val) : fn_out.skeleton.val[k] = c.text
        /\ \A i, j \in 1..Len(fn_out.chunks) :
              fn_out.chunks[i].m = fn_out.chunks[j].m => i = j

\* Two signatures, the first "fn e'()" with its two-byte letter, bodies left out.
C17_Witness ==
    /\ Skeletonized
    /\ fn_in.src = SRC_two
    /\ Len(fn_out.chunks) = 2
    /\ \E i \in 1..2 : fn_out.chunks[i].text = <<102, 110, 32, 195, 169, 40, 41>>

\* C18: the chunks of a skeleton are in ascending order of source byte
\* offset and no two of them cover overlapping byte ranges, whatever order
\* the matches came in.
C18_ChunksOrdered ==
    Skeletonized =>
        \A i, j \in 1..Len(fn_out.chunks) :
            i < j => ChunkSpan(fn_in.src, fn_out.chunks[i]).end
                        <= ChunkSpan(fn_in.src, fn_out.chunks[j]).start

\* C19: safe_slice returns no chunk exactly when the offsets are reversed or
\* past the end; otherwise it returns well-formed UTF-8 that is the content
\* between two character boundaries enclosing the requested range.
C19_SafeSlice ==
    (fn_in.op = "safe_slice" /\ pc = "returned") =>
        /\ ~fn_out.some <=> (fn_in.start > fn_in.end \/ fn_in.end > Len(fn_in.s))
        /\ fn_out.some =>
              /\ from_utf8(fn_out.val)
              /\ \E a \in 0..fn_in.start, b \in fn_in.end..Len(fn_in.s) :
                    /\ is_char_boundary(fn_in.s, a)
                    /\ is_char_boundary(fn_in.s, b)
                    /\ fn_out.val = SubSeq(fn_in.s, a + 1, b)

\* Both offsets fall inside a multi-byte character and the whole character
\* is returned.
C19_Witness ==
    /\ fn_in.op = "safe_slice"
    /\ pc = "returned"
    /\ ~is_char_boundary(fn_in.s, fn_in.start)
    /\ ~is_char_boundary(fn_in.s, fn_in.end)
    /\ fn_out.some
    /\ Len(fn_out.val) = 3

\* C20: js, jsx, mjs and cjs give the JavaScript grammar and query; ts and
\* tsx give two different grammars with the one TypeScript query; rs gives
\* Rust, py gives Python; every other extension gives None.
C20_ExtensionTable ==
    (fn_in.op = "language" /\ pc = "returned") =>
        LET e == fn_in.ext IN
        /\ e \in {EXT_JS, EXT_JSX, EXT_MJS, EXT_CJS} =>
              fn_out = LangOf(EXT_JS) /\ fn_out.some /\ fn_out.val.grammar = "javascript"
        /\ e \in {EXT_TS, EXT_TSX} =>
              /\ fn_out.some
              /\ fn_out.val.query = LangOf(EXT_TS).val.query
              /\ fn_out.val.query = LangOf(EXT_TSX).val.query
              /\ LangOf(EXT_TS).val.grammar # LangOf(EXT_TSX).val.grammar
              /\ fn_out.val.grammar = (IF e = EXT_TS THEN "typescript" ELSE "tsx")
        /\ e = EXT_RS => fn_out.some /\ fn_out.val.grammar = "rust"
        /\ e = EXT_PY => fn_out.some /\ fn_out.val.grammar = "python"
        /\ e \notin {EXT_JS, EXT_JSX, EXT_MJS, EXT_CJS, EXT_TS, EXT_TSX, EXT_RS, EXT_PY} =>
              fn_out = None

\* The extension tsx resolved to the TSX grammar.
C20_Witness ==
    /\ fn_in.op = "language"
    /\ pc = "returned"
    /\ fn_in.ext = EXT_TSX
    /\ fn_out.some
    /\ fn_out.val.grammar = "tsx"

\* The entries of results recorded for path p.
ResultsFor(p) == {k \in 1..Len(results) : results[k][1] = p}

\* C21: every input entry yields at most one (path, skeleton) result; a file
\* whose extraction gives no chunk yields no result and is counted as
\* unsupported; a recorded skeleton is never empty.
C21_AtMostOneSkeleton ==
    /\ \A i \in Idx :
          /\ Cardinality(ResultsFor(files[i])) <= 1
          /\ (task[i].st = "done" /\ task[i].read /\ FS[files[i]].readable
                /\ FS[files[i]].content.chunks = <<>>) =>
                /\ task[i].outcome = "unsupported"
                /\ ResultsFor(files[i]) = {}
    /\ \A k \in 1..Len(results) :
          /\ results[k][2] # <<>>
          /\ \A n \in 1..Len(results[k][2]) : results[k][2][n] # <<>>
    /\ pc \in {"write", "done"} =>
          skipped_unsupported >=
              Cardinality({i \in Idx : task[i].read /\ FS[files[i]].readable
                                        /\ FS[files[i]].content.chunks = <<>>})

\* e.js parsed to no chunk and was counted as unsupported next to a file
\* that was skeletonized.
C21_Witness ==
    /\ pc = "done"
    /\ Len(results) = 1
    /\ \E i \in Idx :
          /\ files[i] = P_e_js
          /\ task[i].read
          /\ task[i].outcome = "unsupported"
    /\ skipped_unsupported >= 1

\* C23: the blocks of the artifact are in byte-wise order of the path
\* strings: p's block comes before q's exactly when p's string is smaller.
C23_BytewiseOrder ==
    disk.some =>
        \A k, n \in 1..Len(results) :
            BlockPos(results[k][1]) < BlockPos(results[n][1])
                <=> CmpBytes(Display(results[k][1]), Display(results[n][1])) < 0

\* The workers between results.lock() returning and drop(results_guard).
InCritical == {i \in Idx : task[i].st \in {"push", "unlock"}}

\* The workers whose pair is in results.
Pushed == {i \in Idx : task[i].st \in {"unlock", "report"} \/ task[i].outcome = "processed"}

\* C28: at most one worker is between acquiring and releasing the results
\* mutex, and it is there only for its push: a worker checking a size,
\* reading, parsing or reporting does not hold it.  No push is lost, and a
\* worker waiting for the lock gets it whenever no worker is pushing,
\* whatever the other workers are reading or parsing.
C28_MutexExclusive ==
    /\ Cardinality(InCritical) <= 1
    /\ InCritical = (IF guard = 0 THEN {} ELSE {guard})
    /\ Len(results) = Cardinality(Pushed)
    /\ \A i \in Pushed : ResultsFor(files[i]) # {}
    /\ \A i \in Idx : (pc = "par" /\ task[i].st = "lock" /\ InCritical = {}) => ENABLED Lock(i)

\* One worker holds the lock for its push while the other is still parsing,
\* a first result being recorded already.
C28_Witness ==
    /\ guard # 0
    /\ task[guard].st = "push"
    /\ \E i \in Idx : task[i].st = "parse"
    /\ Len(results) = 1

\* The workers past their fetch_add whose pair is not yet in results.
Between == {i \in Idx : task[i].st \in {"lock", "push"}}

\* C29: the processed counter is never below the number of results and
\* exceeds it by at most the number of workers between increment and push;
\* when every worker has finished they are equal, and final_count is read
\* only then.
C29_CounterVsResults ==
    /\ processed_count >= Len(results)
    /\ processed_count - Len(results) <= Cardinality(Between)
    /\ (\A i \in Idx : task[i].st = "done") => processed_count = Len(results)
    /\ pc = "par" => final_count = 0
    /\ (pc = "write" \/ (pc = "done" /\ files # <<>>)) =>
          /\ \A i \in Idx : task[i].st = "done"
          /\ final_count = processed_count
          /\ final_count = Len(results)

\* Two workers have both incremented the counter and neither has pushed.
C29_Witness ==
    /\ pc = "par"
    /\ processed_count = 2
    /\ results = <<>>
    /\ Cardinality(Between) = 2

\* The number of entries of the list that come to outcome o when processed alone.
ExpectedCount(o) == Cardinality({i \in Idx : ExpectedOutcome(files[i]) = o})

\* C30: the artifact, the three counters and the return value of a finished
\* run are what the input list and the files determine, with no part played
\* by the verbose flag (the return value also tells whether the write
\* succeeded); with verbose off generate prints nothing.
C30_VerboseOnlyDiagnostics ==
    /\ pc = "done" =>
          /\ processed_count = ExpectedCount("processed")
          /\ skipped_large = ExpectedCount("large")
          /\ skipped_unsupported = ExpectedCount("unsupported")
          /\ disk.some => disk.val = Serialize(SequentialResults)
          /\ ret.val = (IF SequentialResults # <<>> /\ ~disk.some
                           THEN [kind |-> "Err", msg |-> "Io", n |-> 0]
                           ELSE SequentialSummary)
    /\ (~verbose /\ pack = "stage2") => stderr = <<>>

\* A verbose run that printed its lines, skipped a file and wrote the artifact.
C30_Witness ==
    /\ pc = "done"
    /\ verbose
    /\ Len(stderr) >= 3
    /\ disk.some
    /\ skipped_large = 1
    /\ processed_count = 2

\* The closure of entry i can take its next step.
CanStep(i) ==
    \/ ENABLED ReadFile(i)
    \/ ENABLED Skeletonize(i)
    \/ ENABLED Lock(i)
    \/ ENABLED Push(i)
    \/ ENABLED Unlock(i)
    \/ ENABLED Report(i)

\* C26: without a worker fault generate terminates and the run returns to
\* the caller; every entry then has one final outcome; and a closure that
\* has started can always step, except while it waits for the results mutex
\* held by a closure that can itself step.
C26_Terminates ==
    /\ <>(pc = "done" /\ ret.some /\ pack # "stage2")
    /\ []((pc = "done" /\ files # <<>>) =>
            /\ \A i \in Idx :
                  /\ task[i].st = "done"
                  /\ task[i].outcome \in {"processed", "large", "unsupported"}
            /\ processed_count + skipped_large + skipped_unsupported = Len(files))
    /\ [](\A i \in Idx :
            (pc = "par" /\ task[i].st \notin {"pending", "done"}) =>
                \/ CanStep(i)
                \/ /\ task[i].st = "lock"
                   /\ guard \in Idx \ {i}
                   /\ CanStep(guard))

\* A finished run in which a pool of two workers skeletonized two files, the
\* second entry of the list having pushed first.
C26_Witness ==
    /\ pc = "done"
    /\ pack # "stage2"
    /\ pool > 1
    /\ processed_count = 2
    /\ \A i \in Idx : task[i].st = "done"
    /\ results[1][1] = files[2]

RECURSIVE Decimal(_)
\* The decimal digits of n.
Decimal(n) == IF n < 10 THEN <<48 + n>> ELSE Decimal(n \div 10) \o <<48 + (n % 10)>>

\* The lines of the content as the claim counts them, 1-indexed.
SourceLines == Lines(fn_in.content)

\* What the claim asks for lines a..b of the content.
LinesAThroughB(a, b) ==
    IF 1 <= a /\ a <= b /\ b <= Len(SourceLines)
        THEN [kind |-> "Ok",
              extracted |-> JoinWith([k \in 1..(b - a + 1) |-> SourceLines[a + k - 1]], <<10>>),
              info |-> [start |-> a, end |-> b, total |-> Len(SourceLines)]]
    ELSE InvalidLineRange

TargetMatches(q) ==
    IF fn_in.target.t = "path" THEN PathEq(fn_in.target.s, q)
    ELSE /\ GlobParse(fn_in.target.s, 47).some
         /\ GlobMatch(GlobParse(fn_in.target.s, 47).val, q)

Available == {available_files[k] : k \in 1..Len(available_files)}

\* C25: resolve returns FileNotFound for a single path that is not in the
\* list and NoMatches for a pattern that matches no file of the list, in
\* both cases with no file contents; when it succeeds every returned file is
\* a file of the list that the target matches, with that file's text.
C25_ResolveErrors ==
    (fn_in.op = "resolve" /\ pc = "returned") =>
        /\ (fn_in.target.t = "path" /\ \A q \in Available : ~PathEq(fn_in.target.s, q)) =>
              fn_out = ErrOf("FileNotFound")
        /\ (fn_in.target.t = "pattern" /\ GlobParse(fn_in.target.s, 47).some
              /\ \A q \in Available : ~TargetMatches(q)) =>
              fn_out = ErrOf("NoMatches")
        /\ fn_out.kind = "Err" => DOMAIN fn_out = {"kind", "err"}
        /\ fn_out.kind = "Ok" =>
              \A k \in 1..Len(fn_out.files) :
                  \E q \in Available :
                      /\ PathEq(fn_out.files[k].path, q)
                      /\ TargetMatches(q)
                      /\ ReadUnder(q).some
                      /\ ~fn_in.range.some => fn_out.files[k].content = ReadUnder(q).val

\* The pattern "src/*" returned the two files under src and not the third.
C25_Witness ==
    /\ fn_in.op = "resolve"
    /\ pc = "returned"
    /\ fn_in.target = [t |-> "pattern", s |-> <<115, 114, 99, 47, 42>>]
    /\ fn_out.kind = "Ok"
    /\ Len(fn_out.files) = 2

\* The place in the cursor's order of the match chunk c came from.
PosOf(c) == CHOOSE k \in 1..Len(fn_in.order) : fn_in.order[k] = c.m

\* The node of the k-th match the cursor handed out.
NodeAt(k) == MainNode(fn_in.src.matches[fn_in.order[k]])

\* C27: within one call each node contributes at most one chunk, and only
\* through the first match that is about it: a later match on a node that
\* was seen, as a definition or as a capture, with or without a chunk, is
\* skipped.
C27_NodeOnce ==
    (fn_in.op \in {"match_loop", "skeletonize_file"} /\ pc = "returned") =>
        /\ \A i, j \in 1..Len(fn_out.chunks) :
              NodeAt(PosOf(fn_out.chunks[i])).id = NodeAt(PosOf(fn_out.chunks[j])).id => i = j
        /\ \A i \in 1..Len(fn_out.chunks) :
              \A k \in 1..(PosOf(fn_out.chunks[i]) - 1) :
                  NodeAt(k).id # NodeAt(PosOf(fn_out.chunks[i])).id
        /\ \A i, j \in 1..Len(fn_out.chunks) :
              i < j => PosOf(fn_out.chunks[i]) < PosOf(fn_out.chunks[j])

\* A definition whose signature was white space only, then the same node as
\* a capture, then another node: one chunk, from the other node.
C27_Witness ==
    /\ fn_in.op = "match_loop"
    /\ pc = "returned"
    /\ fn_in.src.matches = <<DefBody(N_all, N_a), Capture(N_all), Capture(N_a)>>
    /\ Len(fn_out.chunks) = 1
    /\ fn_out.chunks[1].m = 3

\* The counts the progress lines on stderr carry, in the order printed.
ProgressCounts ==
    LET ls == SelectSeq(stderr, LAMBDA l : l.line = "Processed")
    IN  [k \in 1..Len(ls) |-> ls[k].n]

\* C22: with verbose on there is one progress line for each multiple of 100
\* the processed counter has reached, printed by the closure that drew that
\* count before it returns, and never two lines with one count; a line
\* carries nothing but such a multiple; with verbose off there is none.
C22_ProgressLines ==
    /\ ~verbose => ProgressCounts = <<>>
    /\ \A k \in 1..Len(ProgressCounts) :
          /\ ProgressCounts[k] >= PROGRESS_REPORT_INTERVAL
          /\ ProgressCounts[k] % PROGRESS_REPORT_INTERVAL = 0
          /\ ProgressCounts[k] <= processed_count
    /\ \A k, n \in 1..Len(ProgressCounts) : ProgressCounts[k] = ProgressCounts[n] => k = n
    /\ verbose =>
          \A m \in 1..(processed_count \div PROGRESS_REPORT_INTERVAL) :
              \/ \E k \in 1..Len(ProgressCounts) :
                    ProgressCounts[k] = m * PROGRESS_REPORT_INTERVAL
              \/ \E i \in Idx : /\ task[i].count = m * PROGRESS_REPORT_INTERVAL
                                /\ task[i].st \in {"lock", "push", "unlock", "report"}
    /\ (verbose /\ pc \in {"write", "done"}) =>
          Len(ProgressCounts) = processed_count \div PROGRESS_REPORT_INTERVAL

\* In a verbose run of 201 entries on two workers every closure has
\* returned, with the lines for 100 and for 200, the second printed by the
\* last entry of the list.
C22_Witness ==
    /\ verbose
    /\ pc = "write"
    /\ pool > 1
    /\ processed_count = 2 * PROGRESS_REPORT_INTERVAL + 1
    /\ ProgressCounts = <<PROGRESS_REPORT_INTERVAL, 2 * PROGRESS_REPORT_INTERVAL>>
    /\ task[Len(files)].count = 2 * PROGRESS_REPORT_INTERVAL

====
